---------------------------- MODULE Spec2Model ----------------------------
(***************************************************************************)
(* The Frisbee Go referee of frisbee-twogtp.py: the GTP response framer,   *)
(* the move resolver (legality, ko, deflection) and the game loop of       *)
(* main() with its two engine channels.                                    *)
(*                                                                         *)
(* Texts are sequences of one-character strings.  Probabilities (epsilon,  *)
(* the random draw, the running sum) are integers in units of 1/Scale.     *)
(***************************************************************************)
EXTENDS Integers, Sequences, FiniteSets, TLC

(***************************************************************************)
(* Bounds of the model.                                                    *)
(***************************************************************************)
\* turns after which the model stops asking for moves, engines unconstrained
MaxMoves == 3
\* the same, when the engines open with OpeningBook
MaxBookMoves == 7
\* probabilities are multiples of 1/Scale; the draws are 0 .. Scale-1
Scale == 8
\* longest response text given to the framer on its own
MaxLen == 4
\* most lines an engine writes before it falls silent or its stream ends
MaxLines == 4

\* args.boardsize: the side of the board of the modelled game
boardsize == 3

(***************************************************************************)
(* Text.                                                                   *)
(***************************************************************************)
Digits == {"0", "1", "2", "3", "4", "5", "6", "7", "8", "9"}
\* the characters str.strip() removes, as far as the model's alphabet goes
Whitespace == {" ", "\n"}

Lower(ch) ==
    CASE ch = "A" -> "a" [] ch = "B" -> "b" [] ch = "C" -> "c"
      [] ch = "D" -> "d" [] ch = "P" -> "p" [] ch = "S" -> "s"
      [] OTHER -> ch

\* str.lower()
lower(s) == [i \in 1..Len(s) |-> Lower(s[i])]

RECURSIVE lstrip(_)
lstrip(s) ==
    IF s # <<>> /\ Head(s) \in Whitespace THEN lstrip(Tail(s)) ELSE s

RECURSIVE rstrip(_)
rstrip(s) ==
    IF s # <<>> /\ s[Len(s)] \in Whitespace
    THEN rstrip(SubSeq(s, 1, Len(s) - 1)) ELSE s

\* str.strip()
strip(s) == rstrip(lstrip(s))

\* the greedy [0-9]* of the framer's pattern
RECURSIVE SkipDigits(_)
SkipDigits(s) ==
    IF s # <<>> /\ Head(s) \in Digits THEN SkipDigits(Tail(s)) ELSE s

(***************************************************************************)
(* gtp_cut_response.  The result is [err, success, payload]; err names the *)
(* exception raised, "none" when the pair (success, payload) is returned.  *)
(***************************************************************************)
Raised(e) == [err |-> e, success |-> FALSE, payload |-> <<>>]

\* gtp_cut_response with the id left in the payload
gtp_cut_response_keeps_id(response) ==
    IF response = <<>> \/ Head(response) \notin {"=", "?"}
    THEN Raised("AssertionError")
    ELSE [err |-> "none",
          success |-> (Head(response) = "="),
          payload |-> strip(Tail(response))]

gtp_cut_response(response) ==
    IF response = <<>> THEN Raised("AssertionError")                \* assert response
    ELSE IF Head(response) \notin {"=", "?"}
         THEN Raised("AssertionError")                  \* assert response[0] in '=?'
    ELSE IF Head(response) \notin {"=", "?"}
         THEN Raised("GtpError")                        \* the pattern does not match
    ELSE [err |-> "none",
          success |-> (Head(response) = "="),
          payload |-> strip(SkipDigits(Tail(response)))]

(***************************************************************************)
(* Moves.  A move is 'pass', 'skip' or a pair (row, col); None is the      *)
(* absent ko point.  All four are records so that they can be compared.    *)
(***************************************************************************)
None == [k |-> "none", row |-> 0, col |-> 0]
Pass == [k |-> "pass", row |-> 0, col |-> 0]
Skip == [k |-> "skip", row |-> 0, col |-> 0]
Pt(r, c) == [k |-> "pt", row |-> r, col |-> c]

(***************************************************************************)
(* gomill.common.move_from_vertex and format_vertex, as the referee uses   *)
(* them: a vertex is a column letter and a row number counted from 1; a    *)
(* vertex that is no vertex of the board raises ValueError.                *)
(***************************************************************************)
ColumnLetters == <<"A", "B", "C", "D">>

ColOf(ch) ==
    CASE ch = "a" -> 0 [] ch = "b" -> 1 [] ch = "c" -> 2 [] ch = "d" -> 3
      [] OTHER -> -1

DigitValue(ch) ==
    CASE ch = "0" -> 0 [] ch = "1" -> 1 [] ch = "2" -> 2 [] ch = "3" -> 3
      [] ch = "4" -> 4 [] ch = "5" -> 5 [] ch = "6" -> 6 [] ch = "7" -> 7
      [] ch = "8" -> 8 [] OTHER -> 9

RECURSIVE ParseInt(_)
ParseInt(s) ==
    IF s = <<>> THEN 0
    ELSE 10 * ParseInt(SubSeq(s, 1, Len(s) - 1)) + DigitValue(s[Len(s)])

IsNumber(s) == s # <<>> /\ \A i \in 1..Len(s) : s[i] \in Digits

\* [err, move]: err = "ValueError" when the text is no vertex of the board
move_from_vertex(vertex, board_size) ==
    LET s == lower(vertex) IN
    IF s = <<>> \/ ColOf(s[1]) < 0 \/ ~IsNumber(Tail(s))
    THEN [err |-> "ValueError", move |-> None]
    ELSE LET col == ColOf(s[1])
             row == ParseInt(Tail(s)) - 1
         IN  IF row < 0 \/ ~(col < board_size /\ row < board_size)
             THEN [err |-> "ValueError", move |-> None]
             ELSE [err |-> "none", move |-> Pt(row, col)]

DigitChar(n) ==
    CASE n = 0 -> "0" [] n = 1 -> "1" [] n = 2 -> "2" [] n = 3 -> "3"
      [] n = 4 -> "4" [] n = 5 -> "5" [] n = 6 -> "6" [] n = 7 -> "7"
      [] n = 8 -> "8" [] OTHER -> "9"

\* [err, text]: a coordinate out of 0..24 raises ValueError
format_vertex(move) ==
    IF ~(0 <= move.row /\ move.row < 25) \/ ~(0 <= move.col /\ move.col < 25)
    THEN [err |-> "ValueError", text |-> <<>>]
    ELSE [err |-> "none",
          text |-> <<ColumnLetters[move.col + 1], DigitChar(move.row + 1)>>]

format_move(move) ==
    IF move = Pass THEN [err |-> "none", text |-> <<"p", "a", "s", "s">>]
    ELSE IF move = Skip THEN [err |-> "none", text |-> <<"s", "k", "i", "p">>]
    ELSE format_vertex(move)

(***************************************************************************)
(* gomill.boards.Board, as the referee uses it.  A board is a function     *)
(* from the points to "." (empty), "b" or "w".  Rows are Python lists: an  *)
(* index i < 0 names element side + i, an index outside -side .. side-1    *)
(* raises IndexError.                                                      *)
(***************************************************************************)
Points == (0 .. boardsize - 1) \X (0 .. boardsize - 1)

EmptyBoard == [p \in Points |-> "."]

PyInRange(i) == -boardsize <= i /\ i < boardsize
PyIndex(i) == IF i < 0 THEN i + boardsize ELSE i

opponent_of(colour) == IF colour = "b" THEN "w" ELSE "b"

\* the neighbours of (r, c) that are points of the board
OnBoardNeighbours(r, c) ==
    {<<r - 1, c>>, <<r + 1, c>>, <<r, c - 1>>, <<r, c + 1>>} \cap Points

\* the points of the group of colour `colour` that holds the points `pts`
RECURSIVE GroupPoints(_, _, _)
GroupPoints(bd, colour, pts) ==
    LET more == {q \in Points \ pts :
                    /\ bd[q] = colour
                    /\ \E p \in pts : q \in OnBoardNeighbours(p[1], p[2])}
    IN  IF more = {} THEN pts ELSE GroupPoints(bd, colour, pts \cup more)

\* Board._make_group
make_group(bd, row, col, colour) ==
    LET pts == GroupPoints(bd, colour, {<<row, col>>})
    IN  [colour |-> colour,
         points |-> pts,
         is_surrounded |->
             \A p \in pts : \A q \in OnBoardNeighbours(p[1], p[2]) : bd[q] # "."]

\* Board._find_surrounded_groups: the surrounded groups at and next to (r, c)
find_surrounded_groups(bd, r, c) ==
    LET near == {p \in ({<<r, c>>} \cup OnBoardNeighbours(r, c)) \cap Points :
                    bd[p] # "."}
        groups == {make_group(bd, p[1], p[2], bd[p]) : p \in near}
    IN  {g \in groups : g.is_surrounded}

clear_groups(bd, groups) ==
    [p \in Points |-> IF \E g \in groups : p \in g.points THEN "." ELSE bd[p]]

\* a play that is accepted and leaves the board as it is
BoardPlayLeavesBoard(bd, row, col, colour) ==
    [err |-> "none", board |-> bd, ko |-> None]

\* Board.play: [err, board, ko]; ko is the point forbidden by simple ko
BoardPlay(bd, row, col, colour) ==
    IF ~PyInRange(row) \/ ~PyInRange(col)
    THEN [err |-> "IndexError", board |-> bd, ko |-> None]
    ELSE LET at == <<PyIndex(row), PyIndex(col)>> IN
    IF bd[at] # "."
    THEN [err |-> "ValueError", board |-> bd, ko |-> None]
    ELSE LET placed == [bd EXCEPT ![at] = colour]
             surrounded == find_surrounded_groups(placed, row, col)
             to_capture ==
                 IF Cardinality(surrounded) = 1 THEN surrounded
                 ELSE {g \in surrounded : g.colour = opponent_of(colour)}
             self_capture == {g \in surrounded : g.colour = colour}
             simple_ko ==
                 IF /\ Cardinality(surrounded) > 1
                    /\ Cardinality(to_capture) = 1
                    /\ \A g \in to_capture : Cardinality(g.points) = 1
                    /\ \A g \in self_capture : Cardinality(g.points) = 1
                 THEN LET g == CHOOSE x \in to_capture : TRUE
                          p == CHOOSE x \in g.points : TRUE
                      IN  Pt(p[1], p[2])
                 ELSE None
         IN  [err |-> "none",
              board |-> clear_groups(placed, to_capture),
              ko |-> simple_ko]

(***************************************************************************)
(* The state of main().                                                    *)
(***************************************************************************)
VARIABLES
    epsilon,            \* args.epsilon, in units of 1/Scale
    allow_invalid,      \* args.allow_invalid
    pc,                 \* the statement of main() that runs next
    error,              \* the exception main() ended with, "none" if none
    created,            \* the colours whose GtpBot has been constructed
    closed,             \* the colours whose output stream was read to its end
    sent,               \* per colour, the names of the commands written to it
    has_passed,         \* GtpBot.has_passed, per colour
    player,             \* the colour of `player`; `opponent` is the other one
    b,                  \* the live board
    ko_move,            \* the ko point, or None
    movenum,            \* the number of completed turns
    response,           \* the payload of the frisbee-reg_genmove answer
    move,               \* the move committed in this turn
    player_has_his_way, \* the flag response2move returned with it
    stopped,            \* how the loop was left: "no", "break" or "raise"
    reply,              \* the mark of the answer to the last command written:
                        \* "=" or "?", "-" while there is none
    last,               \* per colour, the kind of the move it committed last
    wire,               \* the command written last, to whom and with what
    raw,                \* a text handed to gtp_cut_response on its own
    cut,                \* what gtp_cut_response made of raw
    given,              \* a move handed to the resolver on its own
    draw,               \* the value of random.random() it was resolved with
    stream,             \* raw_read on its own: what readline() will return
    lines,              \* its `lines`
    prev                \* its `prev`

vars == <<epsilon, allow_invalid, pc, error, created, closed, sent, has_passed,
          player, b, ko_move, movenum, response, move, player_has_his_way,
          stopped, reply, last, wire, raw, cut, given, draw, stream, lines,
          prev>>

Colors == {"B", "W"}
\* the swap that swaps nothing
Same(color) == color

Other(color) == IF color = "B" THEN "W" ELSE "B"
\* player.color.lower()
StoneOf(color) == IF color = "B" THEN "b" ELSE "w"
opponent == Other(player)

(***************************************************************************)
(* What an engine may answer: the text raw_read returns.                   *)
(***************************************************************************)
Answer(payload) == <<"=", " ">> \o payload \o <<"\n", "\n">>
Failure == <<"?", " ", "\n", "\n">>
Malformed == <<"\n", "=", "\n", "\n">>
EndOfStream == <<>>

VertexText(r, c) == <<ColumnLetters[c + 1], DigitChar(r + 1)>>

\* every vertex of the board, one vertex past each far edge, and pass
Proposals ==
    {VertexText(p[1], p[2]) : p \in Points}
        \cup {VertexText(0, boardsize), VertexText(boardsize, 0)}
        \cup {<<"p", "a", "s", "s">>, <<"P", "A", "S", "S">>}

GenmoveAnswers ==
    {Answer(t) : t \in Proposals} \cup {Failure, Malformed, EndOfStream}

Replies == {Answer(<<>>), Failure, Malformed, EndOfStream}

\* the values of args.epsilon the game is played with
Epsilons == {0, 1}
\* random.random(): the draws k/Scale of [0, 1)
Draws == 0 .. Scale - 1

(***************************************************************************)
(* The move resolver: is_move_valid, randomize_move, response2move.        *)
(***************************************************************************)
is_move_valid(mv, color, bd, ko) ==
    IF mv = ko THEN FALSE
    ELSE BoardPlay(bd, mv.row, mv.col, StoneOf(color)).err = "none"

\* the directions with east tried before north
DirectionsEastFirst == <<<<0, 1>>, <<1, 0>>, <<-1, 0>>, <<0, -1>>>>

Directions == <<<<1, 0>>, <<0, 1>>, <<-1, 0>>, <<0, -1>>>>

\* the for loop of randomize_move from its i-th direction on
RECURSIVE Walk(_, _, _, _, _)
Walk(mv, eps, rnd, i, pr_sum) ==
    IF i > Len(Directions) THEN mv
    ELSE IF rnd <= pr_sum + eps
         THEN Pt(mv.row + Directions[i][1], mv.col + Directions[i][2])
         ELSE Walk(mv, eps, rnd, i + 1, pr_sum + eps)

\* randomize_move with the running sum never added to: every direction is
\* tested against epsilon alone
randomize_move_no_sum(mv, eps, rnd) ==
    IF rnd <= eps THEN Pt(mv.row + 1, mv.col) ELSE mv

randomize_move(mv, eps, rnd) == Walk(mv, eps, rnd, 1, 0)

\* response2move with `return True, move_rnd` as its last line
response2move_flag_true(resp, bd, ko, color, eps, allow, rnd) ==
    IF lower(resp) = <<"p", "a", "s", "s">>
    THEN [err |-> "none", flag |-> TRUE, move |-> Pass]
    ELSE LET parsed == move_from_vertex(resp, boardsize) IN
    IF parsed.err # "none"
    THEN [err |-> parsed.err, flag |-> FALSE, move |-> None]
    ELSE IF ~allow /\ ~is_move_valid(parsed.move, color, bd, ko)
    THEN [err |-> "none", flag |-> FALSE, move |-> Skip]
    ELSE LET move_rnd == randomize_move(parsed.move, eps, rnd) IN
         IF ~is_move_valid(move_rnd, color, bd, ko)
         THEN [err |-> "none", flag |-> FALSE, move |-> Skip]
         ELSE [err |-> "none", flag |-> TRUE, move |-> move_rnd]

\* [err, flag, move]
response2move(resp, bd, ko, color, eps, allow, rnd) ==
    IF lower(resp) = <<"p", "a", "s", "s">>
    THEN [err |-> "none", flag |-> TRUE, move |-> Pass]
    ELSE LET parsed == move_from_vertex(resp, boardsize) IN
    IF parsed.err # "none"
    THEN [err |-> parsed.err, flag |-> FALSE, move |-> None]
    ELSE IF ~allow /\ ~is_move_valid(parsed.move, color, bd, ko)
    THEN [err |-> "none", flag |-> FALSE, move |-> Skip]
    ELSE LET move_rnd == randomize_move(parsed.move, eps, rnd) IN
         IF ~is_move_valid(move_rnd, color, bd, ko)
         THEN [err |-> "none", flag |-> FALSE, move |-> Skip]
         ELSE [err |-> "none", flag |-> (parsed.move = move_rnd), move |-> move_rnd]

(***************************************************************************)
(* Init: main() is entered; no engine has been started.                    *)
(***************************************************************************)
\* a command line: `cmd` written to the engine `to`, with the colour and the
\* argument that follow it ("-" and <<>> where there is none)
Command(to, cmd, color, arg) == [to |-> to, cmd |-> cmd, color |-> color, arg |-> arg]
NoWire == Command("-", "none", "-", <<>>)

\* prev = "######"
Sentinel == <<"#", "#", "#", "#", "#", "#">>

NoCut == [err |-> "none", success |-> FALSE, payload |-> <<>>]

Init ==
    /\ epsilon \in Epsilons
    /\ allow_invalid \in BOOLEAN
    /\ pc = "list_b"
    /\ error = "none"
    /\ created = {}
    /\ closed = {}
    /\ sent = [c \in Colors |-> {}]
    /\ has_passed = [c \in Colors |-> FALSE]
    /\ player = "B"
    /\ b = EmptyBoard
    /\ ko_move = None
    /\ movenum = 0
    /\ response = <<>>
    /\ move = None
    /\ player_has_his_way = FALSE
    /\ stopped = "no"
    /\ reply = "-"
    /\ last = [c \in Colors |-> "none"]
    /\ wire = NoWire
    /\ raw = <<>>
    /\ cut = NoCut
    /\ given = None
    /\ draw = 0
    /\ lines = <<>>
    /\ prev = Sentinel
    /\ stream = <<>>

Args == <<epsilon, allow_invalid>>
Reader == <<stream, lines, prev>>
Harness == <<raw, cut, given, draw, stream, lines, prev>>
\* the variables of the loop
Game == <<has_passed, player, b, ko_move, movenum, response, move,
          player_has_his_way>>

\* the sent sets with `name` written to `color`
Written(snt, color, name) == [snt EXCEPT ![color] = @ \cup {name}]
\* the closed streams after `text` was read from `color`
ReadFrom(color, text) ==
    IF text = EndOfStream THEN closed \cup {color} ELSE closed
\* the answer is not taken from the stream: no mark
MarkUnread(text) == "-"

Mark(text) == IF text # <<>> /\ Head(text) \in {"=", "?"} THEN Head(text) ELSE "-"

PcOf(step, color) ==
    CASE step = "list" -> IF color = "B" THEN "list_b" ELSE "list_w"
      [] step = "name" -> IF color = "B" THEN "name_b" ELSE "name_w"
      [] step = "boardsize" -> IF color = "B" THEN "boardsize_b" ELSE "boardsize_w"
      [] OTHER -> IF color = "B" THEN "komi_b" ELSE "komi_w"

\* main() is left: its frame, with the board and the two bots, is gone
Left ==
    /\ pc' = "exit"
    /\ has_passed' = [c \in Colors |-> FALSE]
    /\ player' = "B"
    /\ b' = EmptyBoard
    /\ ko_move' = None
    /\ movenum' = 0
    /\ response' = <<>>
    /\ move' = None
    /\ player_has_his_way' = FALSE

\* an exception outside the try block: main() is left at once
Abort(e) ==
    /\ error' = e
    /\ Left

(***************************************************************************)
(* finally: player.write('quit'); opponent.write('quit'), with `e` the     *)
(* exception on its way ("none" after the break), `snt` the commands       *)
(* written so far, `cl` the streams read to their end and `w` the command  *)
(* written last.  Writing to an engine whose stream has ended either works *)
(* (it only closed its output) or raises BrokenPipeError (it is gone),     *)
(* which ends the clause.                                                  *)
(***************************************************************************)
Finally(e, snt, cl, w) ==
    /\ \/ /\ sent' = Written(Written(snt, player, "quit"), opponent, "quit")
          /\ wire' = Command(opponent, "quit", "-", <<>>)
          /\ error' = e
       \/ /\ player \in cl
          /\ sent' = snt
          /\ wire' = w
          /\ error' = "BrokenPipeError"
       \/ /\ opponent \in cl
          /\ sent' = Written(snt, player, "quit")
          /\ wire' = Command(player, "quit", "-", <<>>)
          /\ error' = "BrokenPipeError"
    /\ Left

(***************************************************************************)
(* GtpBot.__init__: interact('list_commands'), interact('name'), each      *)
(* asserted to succeed.                                                    *)
(***************************************************************************)
ListCommands(color, text) ==
    /\ pc = PcOf("list", color)
    /\ sent' = Written(sent, color, "list_commands")
    /\ wire' = Command(color, "list_commands", "-", <<>>)
    /\ closed' = ReadFrom(color, text)
    /\ reply' = Mark(text)
    /\ LET res == gtp_cut_response(text) IN
       IF res.err # "none" \/ ~res.success
       THEN Abort(IF res.err # "none" THEN res.err ELSE "AssertionError")
       ELSE /\ pc' = PcOf("name", color)
            /\ UNCHANGED error
            /\ UNCHANGED Game
    /\ UNCHANGED <<created, stopped, last>>
    /\ UNCHANGED Args
    /\ UNCHANGED Harness

Name(color, text) ==
    /\ pc = PcOf("name", color)
    /\ sent' = Written(sent, color, "name")
    /\ wire' = Command(color, "name", "-", <<>>)
    /\ closed' = ReadFrom(color, text)
    /\ reply' = Mark(text)
    /\ LET res == gtp_cut_response(text) IN
       IF res.err # "none" \/ ~res.success
       THEN /\ Abort(IF res.err # "none" THEN res.err ELSE "AssertionError")
            /\ UNCHANGED created
       ELSE /\ pc' = IF color = "B" THEN "list_w" ELSE "boardsize_b"
            /\ created' = created \cup {color}
            /\ UNCHANGED error
            /\ UNCHANGED Game
    /\ UNCHANGED <<stopped, last>>
    /\ UNCHANGED Args
    /\ UNCHANGED Harness

(***************************************************************************)
(* black.interact('boardsize ..') .. white.interact('komi ..'): the pair   *)
(* interact returns is dropped; only an exception of read() ends main().   *)
(***************************************************************************)
Boardsize(color, text) ==
    /\ pc = PcOf("boardsize", color)
    /\ sent' = Written(sent, color, "boardsize")
    /\ wire' = Command(color, "boardsize", "-", <<DigitChar(boardsize)>>)
    /\ closed' = ReadFrom(color, text)
    /\ reply' = Mark(text)
    /\ LET res == gtp_cut_response(text) IN
       IF res.err # "none"
       THEN Abort(res.err)
       ELSE /\ pc' = IF color = "B" THEN "boardsize_w" ELSE "komi_b"
            /\ UNCHANGED error
            /\ UNCHANGED Game
    /\ UNCHANGED <<created, stopped, last>>
    /\ UNCHANGED Args
    /\ UNCHANGED Harness

Komi(color, text) ==
    /\ pc = PcOf("komi", color)
    /\ sent' = Written(sent, color, "komi")
    /\ wire' = Command(color, "komi", "-", <<>>)
    /\ closed' = ReadFrom(color, text)
    /\ reply' = Mark(text)
    /\ LET res == gtp_cut_response(text) IN
       IF res.err # "none"
       THEN Abort(res.err)
       ELSE /\ pc' = IF color = "B" THEN "komi_w" ELSE "genmove"
            /\ UNCHANGED error
            /\ UNCHANGED Game
    /\ UNCHANGED <<created, stopped, last>>
    /\ UNCHANGED Args
    /\ UNCHANGED Harness

(***************************************************************************)
(* The loop of main(), one action per engine exchange.  An exception in    *)
(* the try block, and the break, run the finally clause and leave main().  *)
(***************************************************************************)
\* player.write('frisbee-reg_genmove ..')
Genmove ==
    /\ pc = "genmove"
    /\ sent' = Written(sent, player, "frisbee-reg_genmove")
    /\ wire' = Command(player, "frisbee-reg_genmove", player, <<>>)
    /\ reply' = "-"
    /\ pc' = "genmove_read"
    /\ UNCHANGED <<error, created, closed, stopped, last>>
    /\ UNCHANGED Game
    /\ UNCHANGED Args
    /\ UNCHANGED Harness

Raise(e, snt, cl, w) ==
    /\ stopped' = "raise"
    /\ Finally(e, snt, cl, w)

\* success, response = player.read(); assert success
GenmoveRead(text) ==
    /\ pc = "genmove_read"
    /\ closed' = ReadFrom(player, text)
    /\ reply' = Mark(text)
    /\ LET got == gtp_cut_response(text) IN
       IF got.err # "none"
       THEN Raise(got.err, sent, ReadFrom(player, text), wire)
       ELSE IF ~got.success
       THEN Raise("AssertionError", sent, closed, wire)
       ELSE /\ response' = got.payload
            /\ pc' = "resolve"
            /\ UNCHANGED <<error, stopped, sent, wire, has_passed, player, b, ko_move,
                           movenum, move, player_has_his_way>>
    /\ UNCHANGED <<created, last>>
    /\ UNCHANGED Args
    /\ UNCHANGED Harness

\* line 232 left out: has_passed stays as it is
HasPassedKept(mv) == has_passed

\* player.has_passed = move == 'pass'
HasPassedAfter(mv) == [has_passed EXCEPT ![player] = (mv = Pass)]

\* lines 233-237 with the ko point of the turn before kept over a skip or pass
KoKept(mv, returned) == IF mv \in {Skip, Pass} THEN ko_move ELSE returned

\* if move in ['skip', 'pass']: ko_move = None; else: ko_move = b.play(..),
\* with `returned` what b.play returns
KoAfter(mv, returned) == IF mv \in {Skip, Pass} THEN None ELSE returned

\* player_has_his_way, move = response2move(response) .. ko_move = b.play(..),
\* with `rnd` the value random.random() returns if it is called
Resolve(rnd) ==
    /\ pc = "resolve"
    \* res and played are bound by \E over a one-element set: one value each
    /\ \E res \in {response2move(response, b, ko_move, player,
                                epsilon, allow_invalid, rnd)} :
           IF res.err # "none"
           THEN /\ Raise(res.err, sent, closed, wire)
                /\ UNCHANGED last
           ELSE IF res.move \in {Skip, Pass}
           THEN /\ player_has_his_way' = res.flag
                /\ move' = res.move
                /\ has_passed' = HasPassedAfter(res.move)
                /\ last' = [last EXCEPT ![player] = res.move.k]
                /\ ko_move' = KoAfter(res.move, None)
                /\ pc' = "play_own"
                /\ UNCHANGED <<error, stopped, sent, wire, player, b, movenum,
                               response>>
           ELSE \E played \in {BoardPlay(b, res.move.row, res.move.col,
                                          StoneOf(player))} :
                    IF played.err # "none"
                    THEN /\ Raise(played.err, sent, closed, wire)
                         /\ UNCHANGED last
                    ELSE /\ player_has_his_way' = res.flag
                         /\ move' = res.move
                         /\ has_passed' = HasPassedAfter(res.move)
                         /\ last' = [last EXCEPT ![player] = res.move.k]
                         /\ ko_move' = KoAfter(res.move, played.ko)
                         /\ b' = played.board
                         /\ pc' = "play_own"
                         /\ UNCHANGED <<error, stopped, sent, wire, player,
                                        movenum, response>>
    /\ UNCHANGED <<created, closed, reply>>
    /\ UNCHANGED Args
    /\ UNCHANGED Harness

\* player.interact('frisbee-play ..')
PlayOwn(text) ==
    /\ pc = "play_own"
    /\ IF format_move(move).err # "none"
       THEN /\ Raise(format_move(move).err, sent, closed, wire)
            /\ UNCHANGED <<closed, reply>>
       ELSE /\ closed' = ReadFrom(player, text)
            /\ reply' = Mark(text)
            /\ LET got == gtp_cut_response(text)
                   cmd == Command(player, "frisbee-play", player,
                                  format_move(move).text)
               IN
               IF got.err # "none"
               THEN Raise(got.err, Written(sent, player, "frisbee-play"),
                          ReadFrom(player, text), cmd)
               ELSE /\ sent' = Written(sent, player, "frisbee-play")
                    /\ wire' = cmd
                    /\ pc' = "play_opp"
                    /\ UNCHANGED <<error, stopped>>
                    /\ UNCHANGED Game
    /\ UNCHANGED <<created, last>>
    /\ UNCHANGED Args
    /\ UNCHANGED Harness

\* the break test with `or` for `and`
EitherPassed == has_passed[player] \/ has_passed[opponent]

\* if player.has_passed and opponent.has_passed
BothPassed == has_passed[player] /\ has_passed[opponent]

\* opponent.interact('frisbee-play ..'), the test for the break, the swap
PlayOpp(text) ==
    /\ pc = "play_opp"
    /\ closed' = ReadFrom(opponent, text)
    /\ reply' = Mark(text)
    /\ LET got == gtp_cut_response(text)
           cmd == Command(opponent, "frisbee-play", player, format_move(move).text)
       IN
       IF got.err # "none"
       THEN Raise(got.err, Written(sent, opponent, "frisbee-play"),
                  ReadFrom(opponent, text), cmd)
       ELSE IF BothPassed
       THEN /\ stopped' = "break"
            /\ Finally("none", Written(sent, opponent, "frisbee-play"), closed, cmd)
       ELSE /\ sent' = Written(sent, opponent, "frisbee-play")
            /\ wire' = cmd
            /\ pc' = "genmove"
            /\ player' = opponent
            /\ movenum' = movenum + 1
            \* response, move and the flag are dead here: lines 227 and 230
            \* assign them anew before anything reads them
            /\ response' = <<>>
            /\ move' = None
            /\ player_has_his_way' = FALSE
            /\ UNCHANGED <<error, stopped, has_passed, b, ko_move>>
    /\ UNCHANGED <<created, last>>
    /\ UNCHANGED Args
    /\ UNCHANGED Harness

(***************************************************************************)
(* Spec: the referee with two engines that may answer anything.            *)
(***************************************************************************)
Next ==
    \/ \E color \in Colors, text \in Replies : ListCommands(color, text)
    \/ \E color \in Colors, text \in Replies : Name(color, text)
    \/ \E color \in Colors, text \in Replies : Boardsize(color, text)
    \/ \E color \in Colors, text \in Replies : Komi(color, text)
    \/ movenum < MaxMoves /\ Genmove
    \/ \E text \in GenmoveAnswers : GenmoveRead(text)
    \/ \E rnd \in Draws : Resolve(rnd)
    \/ \E text \in Replies : PlayOwn(text)
    \/ \E text \in Replies : PlayOpp(text)

Spec == Init /\ [][Next]_vars

(***************************************************************************)
(* SpecBook: the same referee; the engines open with OpeningBook, no move  *)
(* of it is deflected, and from then on they may answer anything.  The     *)
(* book ends one move before a ko can arise in the corner.                 *)
(***************************************************************************)
OpeningBook ==
    <<VertexText(0, 0), VertexText(1, 0), VertexText(0, 2),
      <<"p", "a", "s", "s">>, VertexText(1, 1)>>

InBook == movenum < Len(OpeningBook)
BookAnswers == IF InBook THEN {Answer(OpeningBook[movenum + 1])} ELSE GenmoveAnswers
BookDraws == IF InBook THEN {Scale - 1} ELSE Draws
BookReplies == IF InBook THEN {Answer(<<>>)} ELSE Replies

NextBook ==
    \/ \E color \in Colors : ListCommands(color, Answer(<<>>))
    \/ \E color \in Colors : Name(color, Answer(<<>>))
    \/ \E color \in Colors : Boardsize(color, Answer(<<>>))
    \/ \E color \in Colors : Komi(color, Answer(<<>>))
    \/ movenum < MaxBookMoves /\ Genmove
    \/ \E text \in BookAnswers : GenmoveRead(text)
    \/ \E rnd \in BookDraws : Resolve(rnd)
    \/ \E text \in BookReplies : PlayOwn(text)
    \/ \E text \in BookReplies : PlayOpp(text)

SpecBook == Init /\ [][NextBook]_vars

(***************************************************************************)
(* SpecFramer: gtp_cut_response on its own, on every text of at most       *)
(* MaxLen characters and on the two responses the documentation names.     *)
(***************************************************************************)
FramerChars == {"=", "?", "1", "a", " ", "\n"}

RECURSIVE TextsOfLen(_)
TextsOfLen(n) ==
    IF n = 0 THEN {<<>>}
    ELSE {<<ch>> \o t : ch \in FramerChars, t \in TextsOfLen(n - 1)}

Texts ==
    UNION {TextsOfLen(n) : n \in 0 .. MaxLen}
        \cup {<<"=", "1", "2", "3", " ", "f", "o", "o">>,
              <<"?", "7", "7", " ", "b", "a", "d">>}

InitHarness(at) ==
    /\ pc = at
    /\ error = "none"
    /\ created = {}
    /\ closed = {}
    /\ sent = [c \in Colors |-> {}]
    /\ has_passed = [c \in Colors |-> FALSE]
    /\ player = "B"
    /\ b = EmptyBoard
    /\ ko_move = None
    /\ movenum = 0
    /\ response = <<>>
    /\ move = None
    /\ player_has_his_way = FALSE
    /\ stopped = "no"
    /\ reply = "-"
    /\ last = [c \in Colors |-> "none"]
    /\ wire = NoWire
    /\ cut = NoCut
    /\ given = None
    /\ draw = 0
    /\ lines = <<>>
    /\ prev = Sentinel

\* cut = gtp_cut_response(response), as GtpBot.read does
Frame(text) ==
    /\ pc = "framer"
    /\ raw' = text
    /\ cut' = gtp_cut_response(text)
    /\ pc' = "framed"
    /\ UNCHANGED <<error, created, closed, sent, stopped, reply, last, wire,
                   given, draw>>
    /\ UNCHANGED Reader
    /\ UNCHANGED Game
    /\ UNCHANGED Args

NextFramer == \E text \in Texts : Frame(text)

InitFramer ==
    /\ InitHarness("framer")
    /\ raw = <<>>
    /\ stream = <<>>
    /\ epsilon = 0
    /\ allow_invalid = FALSE

SpecFramer == InitFramer /\ [][NextFramer]_vars

(***************************************************************************)
(* SpecResolver: randomize_move and response2move on their own, at the     *)
(* first move of a game (black to move on the empty board), for every      *)
(* epsilon k/Scale of [0, 1] and every draw.                               *)
(***************************************************************************)
RandomizeAlone(mv, rnd) ==
    /\ pc = "resolver"
    /\ given' = mv
    /\ draw' = rnd
    /\ move' = randomize_move(mv, epsilon, rnd)
    /\ pc' = "randomized"
    /\ UNCHANGED <<error, created, closed, sent, stopped, reply, last, wire,
                   raw, cut>>
    /\ UNCHANGED Reader
    /\ UNCHANGED <<has_passed, player, b, ko_move, movenum, response,
                   player_has_his_way>>
    /\ UNCHANGED Args

ResolveAlone(text, rnd) ==
    /\ pc = "resolver"
    /\ response' = text
    /\ draw' = rnd
    /\ LET res == response2move(text, b, ko_move, player, epsilon, allow_invalid, rnd)
       IN  /\ error' = res.err
           /\ move' = res.move
           /\ player_has_his_way' = res.flag
    /\ pc' = "resolved"
    /\ UNCHANGED <<created, closed, sent, stopped, reply, last, wire, raw, cut,
                   given>>
    /\ UNCHANGED Reader
    /\ UNCHANGED <<has_passed, player, b, ko_move, movenum>>
    /\ UNCHANGED Args

NextResolver ==
    \/ \E p \in Points, rnd \in Draws : RandomizeAlone(Pt(p[1], p[2]), rnd)
    \/ \E text \in Proposals, rnd \in Draws : ResolveAlone(text, rnd)

InitResolver ==
    /\ InitHarness("resolver")
    /\ raw = <<>>
    /\ stream = <<>>
    /\ epsilon \in 0 .. Scale
    /\ allow_invalid \in BOOLEAN

SpecResolver == InitResolver /\ [][NextResolver]_vars

(***************************************************************************)
(* SpecReader: GtpBot.raw_read on its own.  The engine's output is a       *)
(* sequence of lines; readline() returns them one by one, the empty text   *)
(* once the stream has ended, and does not return while the engine is      *)
(* alive and silent.                                                       *)
(***************************************************************************)
BlankLine == <<"\n">>
OutputLines == {BlankLine, <<"=", "\n">>, <<"a", "\n">>}

RECURSIVE LinesOfLen(_)
LinesOfLen(n) ==
    IF n = 0 THEN {<<>>}
    ELSE {<<l>> \o t : l \in OutputLines, t \in LinesOfLen(n - 1)}

\* what the stream ends with: nothing yet (the engine is alive), its end, or
\* a line without a newline and its end
StreamEnds == {<<>>, <<EndOfStream>>, <<<<"a">>, EndOfStream>>}

Streams ==
    {s \o e : s \in UNION {LinesOfLen(n) : n \in 0 .. MaxLines}, e \in StreamEnds}

\* "".join(lines)
RECURSIVE Join(_)
Join(ls) == IF ls = <<>> THEN <<>> ELSE Head(ls) \o Join(Tail(ls))

\* one turn of the while loop of raw_read; the break returns "".join(lines)
ReadLine ==
    /\ pc = "raw_read"
    /\ stream # <<>>
    /\ LET line == Head(stream) IN
       /\ stream' = Tail(stream)
       /\ lines' = Append(lines, line)
       /\ IF line = <<>> \/ (prev[Len(prev)] = "\n" /\ line = BlankLine)
          THEN /\ pc' = "raw_read_done"
               /\ raw' = Join(lines')
               /\ UNCHANGED prev
          ELSE /\ prev' = line
               /\ UNCHANGED <<pc, raw>>
    /\ UNCHANGED <<error, created, closed, sent, stopped, reply, last, wire, cut,
                   given, draw>>
    /\ UNCHANGED Game
    /\ UNCHANGED Args

NextReader == ReadLine

InitReader ==
    /\ InitHarness("raw_read")
    /\ raw = <<>>
    /\ stream \in Streams
    /\ epsilon = 0
    /\ allow_invalid = FALSE

SpecReader == InitReader /\ [][NextReader]_vars

(***************************************************************************)
(* The claims.                                                             *)
(***************************************************************************)
LoopPcs == {"genmove", "genmove_read", "resolve", "play_own", "play_opp"}

\* a proposal read as a coordinate, whether or not it is one of the board
IsCoordinate(text) ==
    /\ text # <<>>
    /\ ColOf(Lower(text[1])) >= 0
    /\ IsNumber(Tail(text))
CoordinateOf(text) == Pt(ParseInt(Tail(text)) - 1, ColOf(Lower(text[1])))

OnBoard(mv) == mv.k = "pt" /\ <<mv.row, mv.col>> \in Points
\* the legality of section 4.3: not the ko point, on the board, empty
Legal(mv, bd, ko) == OnBoard(mv) /\ mv # ko /\ bd[<<mv.row, mv.col>>] = "."

NorthOf(mv) == Pt(mv.row + 1, mv.col)
EastOf(mv) == Pt(mv.row, mv.col + 1)
SouthOf(mv) == Pt(mv.row - 1, mv.col)
WestOf(mv) == Pt(mv.row, mv.col - 1)
NeighboursOf(mv) == {NorthOf(mv), EastOf(mv), SouthOf(mv), WestOf(mv)}

\* C1: the loop is left by its break only when the last move of each side is a
\* pass, it never asks for another move when both are, and a side's has_passed
\* is true exactly when the last move it committed is a pass (so a skip or a
\* stone in between undoes an earlier pass).
C1_DoublePassStops ==
    /\ stopped = "break" => (last["B"] = "pass" /\ last["W"] = "pass")
    /\ (stopped = "no" /\ pc \in {"genmove", "genmove_read", "resolve"})
           => ~(last[player] = "pass" /\ last[opponent] = "pass")
    /\ pc \in LoopPcs \ {"resolve"}
           => \A c \in Colors : has_passed[c] <=> (last[c] = "pass")

\* three turns are over, white's last move is a skip and black's, after it, a
\* pass: the game goes on
C1_PassSkipGoesOn ==
    /\ pc = "genmove"
    /\ movenum = 3
    /\ stopped = "no"
    /\ last["B"] = "pass"
    /\ last["W"] = "skip"
    /\ has_passed["B"]
    /\ ~has_passed["W"]

\* C2: when a frisbee-reg_genmove has been written to an engine, frisbee-epsilon
\* has been written to the black engine and to the white engine.
C2_EpsilonBeforeGenmove ==
    (\E c \in Colors : "frisbee-reg_genmove" \in sent[c])
        => (\A c \in Colors : "frisbee-epsilon" \in sent[c])

\* C3: when main() is left, quit has been written to every engine channel that
\* was created.
C3_QuitOnEveryExit ==
    pc = "exit" => (\A c \in created : "quit" \in sent[c])

\* C4: an answer '?' to boardsize, komi or frisbee-play (and to any other
\* command) ends the game with an error; nothing more is asked of the engines.
C4_FailureIsFatal ==
    reply = "?" => (pc = "exit" /\ error # "none")

\* C5: with allow_invalid off, a proposal that is a coordinate off the board, on
\* a stone or on the ko point is committed as (False, skip): the board is as it
\* was, the ko point is None and the turn goes on to the reports.
C5_IllegalProposalIsSkip ==
    [][(/\ pc = "resolve"
        /\ ~allow_invalid
        /\ IsCoordinate(response)
        /\ ~Legal(CoordinateOf(response), b, ko_move))
       => (/\ pc' = "play_own"
           /\ move' = Skip
           /\ ~player_has_his_way'
           /\ b' = b
           /\ ko_move' = None
           /\ player' = player)]_vars

C7_EpsilonZeroNeverDeflects ==
    (/\ pc = "resolved"
     /\ epsilon = 0
     /\ IsCoordinate(response)
     /\ OnBoard(CoordinateOf(response)))
        => (/\ error = "none"
            /\ player_has_his_way
            /\ move = CoordinateOf(response))

\* C8: with 4 * epsilon >= 1 randomize_move never returns the point it was
\* given; a direction is never taken when the sum before it has reached 1; with
\* epsilon 1/4 the result is one of the four neighbours, with epsilon 1/2 it is
\* the north or the east one.
C8_MassBeyondOneUnreachable ==
    pc = "randomized"
        => (/\ 4 * epsilon >= Scale => move \in NeighboursOf(given)
            /\ move = EastOf(given) => epsilon < Scale
            /\ move = SouthOf(given) => 2 * epsilon < Scale
            /\ move = WestOf(given) => 3 * epsilon < Scale
            /\ 4 * epsilon = Scale => move \in NeighboursOf(given)
            /\ 2 * epsilon = Scale => move \in {NorthOf(given), EastOf(given)})

\* epsilon 1/4 and the largest draw: the move goes west
C8_LastDirectionTaken ==
    /\ pc = "randomized"
    /\ 4 * epsilon = Scale
    /\ draw = Scale - 1
    /\ move = WestOf(given)

WellFormed(text) == text # <<>> /\ text[1] \in {"=", "?"}

\* `payload` is `text` without its mark, the digits after the mark and the
\* whitespace around what is left
IsPayloadOf(payload, text) ==
    \E i \in 1 .. Len(text), s \in 2 .. Len(text) + 1, e \in 0 .. Len(text) :
        /\ \A k \in 2 .. i : text[k] \in Digits
        /\ i < Len(text) => text[i + 1] \notin Digits
        /\ s > i
        /\ e >= s - 1
        /\ \A k \in i + 1 .. s - 1 : text[k] \in Whitespace
        /\ \A k \in e + 1 .. Len(text) : text[k] \in Whitespace
        /\ payload = SubSeq(text, s, e)
        /\ payload # <<>>
               => (payload[1] \notin Whitespace
                   /\ payload[Len(payload)] \notin Whitespace)

\* C9: of a response that starts with '=' or '?', the framer returns success
\* exactly for '=', and as payload the rest without the id digits and the
\* whitespace around it; "=123 foo" gives (True, "foo"), "?77 bad" (False, "bad").
C9_FramerCutsResponse ==
    (pc = "framed" /\ WellFormed(raw))
        => (/\ cut.err = "none"
            /\ cut.success = (raw[1] = "=")
            /\ IsPayloadOf(cut.payload, raw)
            /\ raw = <<"=", "1", "2", "3", " ", "f", "o", "o">>
                   => (cut.success /\ cut.payload = <<"f", "o", "o">>)
            /\ raw = <<"?", "7", "7", " ", "b", "a", "d">>
                   => (~cut.success /\ cut.payload = <<"b", "a", "d">>))

\* "=1 a\n" is cut to (True, "a")
C9_IdAndFramingCut ==
    /\ pc = "framed"
    /\ raw = <<"=", "1", " ", "a">>
    /\ cut = [err |-> "none", success |-> TRUE, payload |-> <<"a">>]

\* C10: a response that does not start with '=' or '?', the empty one
\* included, makes the framer raise GtpError.
C10_MalformedRaisesGtpError ==
    (pc = "framed" /\ ~WellFormed(raw)) => cut.err = "GtpError"

\* C14: raw_read returns only after reading the end of the stream, or a blank
\* line that comes right after a line that is not blank; so a blank line that
\* follows no other than blank lines does not end the read.
C14_ReadEndsAfterContent ==
    pc = "raw_read_done"
        => \/ lines[Len(lines)] = EndOfStream
           \/ /\ Len(lines) >= 2
              /\ lines[Len(lines)] = BlankLine
              /\ lines[Len(lines) - 1] # BlankLine

PassTexts == {<<"p", "a", "s", "s">>, <<"P", "A", "S", "S">>}

\* C11: in a game where every proposal is pass and every command is answered
\* with success, each pass is committed as pass and leaves the board and the ko
\* point alone, the loop goes on after the first pass (black's), and after the
\* second (white's) it is left by the break with the board empty, the ko point
\* None, no error, and quit written to both engines.
C11_AllPassEndsInTwo ==
    [][/\ (pc = "resolve" /\ response \in PassTexts)
              => (/\ pc' = "play_own"
                  /\ move' = Pass
                  /\ b' = b
                  /\ ko_move' = None)
       /\ (/\ pc = "play_opp"
           /\ movenum = 0
           /\ move = Pass
           /\ reply' = "=")
              => (/\ pc' = "genmove"
                  /\ player' = "W"
                  /\ movenum' = 1
                  /\ stopped' = "no")
       /\ (/\ pc = "play_opp"
           /\ movenum = 1
           /\ last["B"] = "pass"
           /\ last["W"] = "pass"
           /\ closed' = {}
           /\ reply' = "=")
              => (/\ b = EmptyBoard
                  /\ ko_move = None
                  /\ pc' = "exit"
                  /\ stopped' = "break"
                  /\ error' = "none"
                  /\ \A c \in Colors : "quit" \in sent'[c])]_vars

\* black's pass and white's are committed, white's is reported to white, and no
\* engine has failed: the report to black is all that is left of the game
C11_SecondPassCommitted ==
    /\ pc = "play_opp"
    /\ movenum = 1
    /\ player = "W"
    /\ move = Pass
    /\ last["B"] = "pass"
    /\ last["W"] = "pass"
    /\ b = EmptyBoard
    /\ closed = {}
    /\ wire = Command("W", "frisbee-play", "W", <<"p", "a", "s", "s">>)

\* a command is written in this step
Writes == wire' # wire

\* the points next to a point of the board
Around(mv) == {q \in Points : Pt(q[1], q[2]) \in NeighboursOf(mv)}

\* C12: the step that commits a stone on a point of the board puts it on the
\* live board (where it stands, unless every point around it was taken and it
\* went off the board with its group at once) and writes no frisbee-play; when
\* frisbee-play with a coordinate is written, to the mover or to the other
\* engine, that coordinate is the move so committed, and the step leaves the
\* board and the ko point as they are.
C12_BoardBeforeReport ==
    [][/\ (pc = "resolve" /\ pc' = "play_own" /\ OnBoard(move'))
              => \/ b'[<<move'.row, move'.col>>] = StoneOf(player)
                 \/ /\ b'[<<move'.row, move'.col>>] = "."
                    /\ \A q \in Around(move') : b[q] # "."
       /\ pc = "resolve" => (wire' = wire \/ wire'.cmd = "quit")
       /\ b' # b => (pc = "resolve" \/ pc' = "exit")
       /\ (Writes /\ wire'.cmd = "frisbee-play" /\ IsCoordinate(wire'.arg))
              => (/\ pc \in {"play_own", "play_opp"}
                  /\ OnBoard(move)
                  /\ move = CoordinateOf(wire'.arg)
                  /\ wire'.color = player
                  /\ pc' # "exit" => (b' = b /\ ko_move' = ko_move))]_vars

\* white's stone on B1 has taken black's on A1, the ko point is A1, and white
\* is told of its move
C12_CaptureReported ==
    /\ pc = "play_opp"
    /\ player = "W"
    /\ wire = Command("W", "frisbee-play", "W", <<"B", "1">>)
    /\ b[<<0, 1>>] = "w"
    /\ b[<<0, 0>>] = "."
    /\ ko_move = Pt(0, 0)

\* C13: randomize_move of (row, col) with the draw r is the first of north
\* (row+1), east (col+1), south (row-1), west (col-1), in that order, whose
\* running sum of epsilon (1, 2, 3, 4 times epsilon) is at least r, and
\* (row, col) itself if there is none; the one draw r decides for all four.
C13_DeflectionReference ==
    pc = "randomized"
        => LET reached == {i \in 1 .. 4 : i * epsilon >= draw} IN
           IF reached = {} THEN move = given
           ELSE LET first == CHOOSE i \in reached : \A j \in reached : i <= j
                IN  /\ first = 1 => move = NorthOf(given)
                    /\ first = 2 => move = EastOf(given)
                    /\ first = 3 => move = SouthOf(given)
                    /\ first = 4 => move = WestOf(given)

\* epsilon 1/Scale and the draw 3/Scale: north and east are passed over, the
\* move goes south
C13_ThirdDirectionTaken ==
    /\ pc = "randomized"
    /\ epsilon = 1
    /\ draw = 3
    /\ given = Pt(1, 1)
    /\ move = Pt(0, 1)

Denotes(text, mv) ==
    \/ mv = Pass /\ text = <<"p", "a", "s", "s">>
    \/ mv = Skip /\ text = <<"s", "k", "i", "p">>
    \/ mv.k = "pt" /\ IsCoordinate(text) /\ CoordinateOf(text) = mv

C17_OneRequestAtATime ==
    [][/\ (Writes /\ wire'.cmd # "quit")
              => (wire = NoWire \/ reply \in {"=", "?"})
       /\ pc = "genmove_read" => (wire' = wire \/ wire'.cmd = "quit")
       /\ wire'.cmd = "quit" => pc' = "exit"]_vars

\* white's first frisbee-reg_genmove is written and not answered yet
C17_RequestOutstanding ==
    /\ pc = "genmove_read"
    /\ movenum = 1
    /\ reply = "-"
    /\ wire = Command("W", "frisbee-reg_genmove", "W", <<>>)

\* what response2move has returned for `text`: the flag and the move
Matched(text, flag, mv) ==
    /\ text \in PassTexts => (flag /\ mv = Pass)
    /\ IsCoordinate(text) => (flag <=> mv = CoordinateOf(text))
    /\ mv = Skip => ~flag
    /\ mv = Pass => text \in PassTexts

\* C18: whenever response2move returns, in a game or on its own with any
\* epsilon of [0, 1]: a proposal that reads pass, in small or in capital
\* letters, gives (True, pass); for a coordinate the flag is True exactly when
\* the committed move is that coordinate; every skip comes with the flag False.
C18_FlagMeansAsProposed ==
    [][/\ (pc = "resolve" /\ pc' = "play_own")
              => Matched(response, player_has_his_way', move')
       /\ (pc = "resolver" /\ pc' = "resolved" /\ error' = "none")
              => Matched(response', player_has_his_way', move')]_vars

\* epsilon 1: C3 is deflected north, off the board, and committed as skip with
\* the flag False
C18_DeflectedToSkip ==
    /\ pc = "resolved"
    /\ epsilon = Scale
    /\ allow_invalid
    /\ response = <<"C", "3">>
    /\ error = "none"
    /\ move = Skip
    /\ ~player_has_his_way

\* the stones that `after` lacks of `before`
Taken(before, after) == {p \in Points : before[p] # "." /\ after[p] = "."}

\* the stone put on `mv` takes exactly one stone, of the other colour, and
\* stands alone among stones of the other colour: simple ko
IsSimpleKo(before, after, mv, stone) ==
    /\ Cardinality(Taken(before, after)) = 1
    /\ \A p \in Taken(before, after) : before[p] # stone
    /\ \A q \in Around(mv) : before[q] \notin {".", stone}

\* C19: the step that commits a move sets the ko point: to None for pass and
\* skip; for a stone to what b.play returns, which on the board is the point of
\* the one stone taken in a simple ko and None otherwise.  No other step of the
\* game changes it, a proposal on the ko point is not committed there, and the
\* ko point of one turn does not outlast the next.
C19_KoPointOfLastMove ==
    [][/\ (pc = "resolve" /\ pc' = "play_own")
              => (/\ move' \in {Pass, Skip} => ko_move' = None
                  /\ move'.k = "pt"
                         => ko_move' = BoardPlay(b, move'.row, move'.col,
                                                 StoneOf(player)).ko
                  /\ OnBoard(move')
                         => IF IsSimpleKo(b, b', move', StoneOf(player))
                            THEN /\ ko_move'.k = "pt"
                                 /\ Taken(b, b') = {<<ko_move'.row, ko_move'.col>>}
                            ELSE ko_move' = None
                  /\ (IsCoordinate(response) /\ CoordinateOf(response) = ko_move)
                         => move' # ko_move
                  /\ ko_move # None => ko_move' # ko_move)
       /\ (pc # "resolve" /\ pc' # "exit") => ko_move' = ko_move]_vars

\* white's stone on B1 has taken black's on A1: the ko point is A1
C19_KoRecorded ==
    /\ pc = "play_own"
    /\ player = "W"
    /\ move = Pt(0, 1)
    /\ ko_move = Pt(0, 0)
    /\ b[<<0, 0>>] = "."

\* the side to make move number n + 1
MoverOf(n) == IF n % 2 = 0 THEN "B" ELSE "W"

\* C20: in the loop the current player is black when an even number of turns
\* is over and white when an odd number is, and the opponent is the other
\* engine; frisbee-reg_genmove goes to the current player with its colour; the
\* stone a turn puts on the board has the colour of the current player; and a
\* turn, whatever its move is (a stone, pass or skip), ends with the other side
\* to move and the count of turns one up, which is the only way the count or
\* the player changes.
C20_TurnsAlternate ==
    [][/\ pc' \in LoopPcs => (player' = MoverOf(movenum') /\ Other(player') # player')
       /\ (Writes /\ wire'.cmd = "frisbee-reg_genmove")
              => (/\ pc = "genmove"
                  /\ wire'.to = MoverOf(movenum)
                  /\ wire'.color = MoverOf(movenum))
       /\ (pc = "resolve" /\ pc' = "play_own")
              => \A p \in Points :
                     (b'[p] # b[p] /\ b'[p] # ".") => b'[p] = StoneOf(MoverOf(movenum))
       /\ (pc = "play_opp" /\ pc' # "exit")
              => (/\ pc' = "genmove"
                  /\ movenum' = movenum + 1
                  /\ player' = Other(player))
       /\ (pc # "play_opp" /\ pc' # "exit")
              => (movenum' = movenum /\ player' = player)]_vars

\* black has played a stone, white's move was a skip, and the third
\* frisbee-reg_genmove goes to black
C20_BlackAgainAfterSkip ==
    /\ pc = "genmove_read"
    /\ movenum = 2
    /\ last["B"] = "pt"
    /\ last["W"] = "skip"
    /\ wire = Command("B", "frisbee-reg_genmove", "B", <<>>)

=============================================================================
